---- MODULE Spec2Model ----
(***************************************************************************)
(* Portfolio dashboards of magbhu/orchidlab.                               *)
(*                                                                         *)
(* Three Streamlit scripts load a CSV of holdings, filter and sort it by   *)
(* sidebar widgets, and render a per-group summary and a per-row detail    *)
(* table.  Streamlit re-executes the whole script on every widget          *)
(* interaction, so one action of this model is one complete run of one     *)
(* script with the widget values of that run as its inputs.                *)
(*                                                                         *)
(* Column names.  stock_portfolio_dashboard.py calls the columns           *)
(* Portfolio, Member, Broker, Sector, Company Name, Value At Cost and      *)
(* Value At Market Price; the two orchidDashboardStock scripts call them   *)
(* family member name, broker name, sector code, stock code, invested      *)
(* amount and current value (and have no portfolio column).  The model     *)
(* uses the first set of names for all three scripts.                      *)
(*                                                                         *)
(* Numbers.  Amounts are integers counting hundredths of a rupee, so that  *)
(* the two-decimal and the zero-decimal currency formats differ.  A float  *)
(* is the exact rational n/d or one of inf, -inf, nan, which is what       *)
(* numpy/pandas division yields where Python's own division would raise.   *)
(* Attribute values (names of members, brokers, ...) are small positive    *)
(* integers ordered as the strings they stand for.                         *)
(*                                                                         *)
(* Files.  csv holds the rows of the file a run reads, with the number     *)
(* each amount cell starts with; non_numeric holds the cells (row, column) *)
(* whose text is not a number, such as "150abc".  files tells whether      *)
(* portfolio-inputs.csv can be read, what the user has put in the          *)
(* uploader, and which columns the header of the file has.                 *)
(***************************************************************************)
EXTENDS Integers, Sequences, FiniteSets, TLC

VARIABLES script, csv, widgets, filtered_df, summary, summary_shown,
          detail, detail_shown, stats, outcome, files, non_numeric, report,
          format_call

vars == <<script, csv, widgets, filtered_df, summary, summary_shown,
          detail, detail_shown, stats, outcome, files, non_numeric, report,
          format_call>>

(***************************************************************************)
(* Bounds of the model.                                                    *)
(***************************************************************************)
MaxRows == 2

MaxActiveFilters == 2

MaxFormatInputs == 30

(***************************************************************************)
(* The three scripts.                                                      *)
(***************************************************************************)
SPD == "stock_portfolio_dashboard.py"

V2 == "orchidDashboardStock-v2.py"

V1 == "orchidDashboardStock.py"

Scripts == {SPD, V2, V1}

(***************************************************************************)
(* The holdings a CSV file is made of.                                     *)
(***************************************************************************)
Holding(p, m, b, s, c, cost, market) ==
    [Portfolio |-> p, Member |-> m, Broker |-> b, Sector |-> s,
     CompanyName |-> c, ValueAtCost |-> cost, ValueAtMarketPrice |-> market]

SampleHoldings ==
    { Holding(1, 1, 1, 1, 1, 150, 250),
      Holding(2, 1, 1, 1, 2, 250, 50),
      Holding(1, 2, 2, 2, 1, 0, 150) }

RECURSIVE SeqsUpTo(_, _)
SeqsUpTo(S, n) ==
    IF n = 0 THEN {<<>>}
    ELSE LET shorter == SeqsUpTo(S, n - 1)
         IN  shorter \cup {Append(s, x) : s \in {t \in shorter : Len(t) = n - 1}, x \in S}

\* The files the scripts are run on: at least one and at most MaxRows rows.
CsvFiles == SeqsUpTo(SampleHoldings, MaxRows) \ {<<>>}

\* The columns that hold amounts.
NumericColumns == {"ValueAtCost", "ValueAtMarketPrice"}

\* The cells of a file that may hold text that is not a number.
AmountCells(df) == (1..Len(df)) \X NumericColumns

\* pd.read_csv gives a column dtype object, its cells being strings, as soon
\* as one cell of the column is not a number.
object_columns(bad) == {cell[2] : cell \in bad}

\* pd.to_numeric(df[col], errors='coerce').fillna(0) on the amount columns:
\* a cell that is not a number becomes NaN and then 0.
to_numeric_fillna(df, bad) ==
    [i \in 1..Len(df) |->
        [c \in DOMAIN df[i] |-> IF <<i, c>> \in bad THEN 0 ELSE df[i][c]]]

(***************************************************************************)
(* Data-frame helpers (pandas).                                            *)
(***************************************************************************)
RECURSIVE SumCol(_, _)
SumCol(df, col) ==
    IF df = <<>> THEN 0 ELSE df[1][col] + SumCol(Tail(df), col)

Unique(df, col) == {df[i][col] : i \in 1..Len(df)}

\* Rows compared on the columns `by`, the first column first.
RECURSIVE RowLessEq(_, _, _)
RowLessEq(a, b, by) ==
    IF by = <<>> THEN TRUE
    ELSE \/ a[by[1]] < b[by[1]]
         \/ a[by[1]] = b[by[1]] /\ RowLessEq(a, b, Tail(by))

\* Insert row r after every row that is not greater than it, which keeps
\* rows of equal key in their input order.
RECURSIVE InsertSorted(_, _, _)
InsertSorted(r, sorted, by) ==
    IF sorted = <<>> THEN <<r>>
    ELSE IF RowLessEq(sorted[1], r, by)
         THEN <<sorted[1]>> \o InsertSorted(r, Tail(sorted), by)
         ELSE <<r>> \o sorted

\* DataFrame.sort_values(by): rows in ascending order of the columns `by`.
sort_values(df, by) ==
    LET F[i \in 0..Len(df)] ==
            IF i = 0 THEN <<>> ELSE InsertSorted(df[i], F[i - 1], by)
    IN  F[Len(df)]

\* Tuples of equal length in lexicographic order.
RECURSIVE TupleLessEq(_, _)
TupleLessEq(a, b) ==
    IF a = <<>> THEN TRUE
    ELSE \/ a[1] < b[1]
         \/ a[1] = b[1] /\ TupleLessEq(Tail(a), Tail(b))

\* The elements of a finite set of tuples as an ascending sequence.
RECURSIVE SortedTuples(_)
SortedTuples(S) ==
    IF S = {} THEN <<>>
    ELSE LET least == CHOOSE x \in S : \A y \in S : TupleLessEq(x, y)
         IN  <<least>> \o SortedTuples(S \ {least})

GroupOf(row, by) == [i \in 1..Len(by) |-> row[by[i]]]

\* A variant of groupby_sum for agg 'first': each group row takes the amounts
\* of the first holding of its group.
groupby_first(df, by) ==
    LET groups == SortedTuples({GroupOf(df[i], by) : i \in 1..Len(df)})
        members(g) == SelectSeq(df, LAMBDA row : GroupOf(row, by) = g)
    IN  [j \in 1..Len(groups) |->
            [group |-> groups[j],
             ValueAtCost |-> members(groups[j])[1].ValueAtCost,
             ValueAtMarketPrice |-> members(groups[j])[1].ValueAtMarketPrice]]

\* df.groupby(by).agg({cost: 'sum', market: 'sum'}).reset_index(): one row
\* per distinct combination of the `by` columns, in ascending key order.
groupby_sum(df, by) ==
    LET groups == SortedTuples({GroupOf(df[i], by) : i \in 1..Len(df)})
        members(g) == SelectSeq(df, LAMBDA row : GroupOf(row, by) = g)
    IN  [j \in 1..Len(groups) |->
            [group |-> groups[j],
             ValueAtCost |-> SumCol(members(groups[j]), "ValueAtCost"),
             ValueAtMarketPrice |-> SumCol(members(groups[j]), "ValueAtMarketPrice")]]

(***************************************************************************)
(* Floats: the rational n/d (d > 0), or inf, -inf, nan.                    *)
(***************************************************************************)
Num(n, d) == [k |-> "num", n |-> n, d |-> d]

Inf == [k |-> "inf", n |-> 0, d |-> 1]

NegInf == [k |-> "-inf", n |-> 0, d |-> 1]

NaN == [k |-> "nan", n |-> 0, d |-> 1]

\* numpy/pandas true division of two non-negative-denominator numbers.
np_divide(a, b) ==
    IF b # 0 THEN Num(a, b)
    ELSE IF a > 0 THEN Inf
    ELSE IF a < 0 THEN NegInf
    ELSE NaN

times100(f) == IF f.k = "num" THEN Num(f.n * 100, f.d) ELSE f

isna(f) == f.k = "nan"

\* n/d rounded to the nearest integer, ties to even (d > 0).
RoundHalfEven(n, d) ==
    LET q == n \div d
        r == n - q * d
    IN  IF 2 * r < d THEN q
        ELSE IF 2 * r > d THEN q + 1
        ELSE IF q % 2 = 0 THEN q ELSE q + 1

(***************************************************************************)
(* Display strings.  A currency string is modelled by the number of        *)
(* decimals it shows and the amount it shows in units of the last shown    *)
(* decimal; a percentage string by what it shows in hundredths of a        *)
(* percent, or by the word it shows instead of a number.                   *)
(***************************************************************************)
Currency(decimals, v) == [decimals |-> decimals, v |-> v]

Percent(k, bp) == [k |-> k, bp |-> bp]

\* The characters of a display string, one string per character; "Rs"
\* stands for the rupee sign.
Digit(d) == <<"0", "1", "2", "3", "4", "5", "6", "7", "8", "9">>[d + 1]

\* The decimal digits of a natural number.
RECURSIVE Digits(_)
Digits(n) == IF n < 10 THEN <<Digit(n)>> ELSE Append(Digits(n \div 10), Digit(n % 10))

\* The last d decimal digits of a natural number, with leading zeros.
RECURSIVE FixedDigits(_, _)
FixedDigits(n, d) ==
    IF d = 0 THEN <<>> ELSE Append(FixedDigits(n \div 10, d - 1), Digit(n % 10))

\* The ',' option of a format specification: a comma before every group of
\* three digits, counted from the right.
RECURSIVE Grouped(_)
Grouped(digits) ==
    IF Len(digits) <= 3 THEN digits
    ELSE Grouped(SubSeq(digits, 1, Len(digits) - 3)) \o <<",">>
            \o SubSeq(digits, Len(digits) - 2, Len(digits))

RECURSIVE Pow10(_)
Pow10(d) == IF d = 0 THEN 1 ELSE 10 * Pow10(d - 1)

Abs(n) == IF n < 0 THEN -n ELSE n

Sign(n) == IF n < 0 THEN <<"-">> ELSE <<>>

\* A variant of currency_text for f"Rs{value:.2f}", without the ',' option.
currency_text_ungrouped(c) ==
    <<"Rs">> \o Sign(c.v) \o Digits(Abs(c.v) \div Pow10(c.decimals))
        \o (IF c.decimals = 0 THEN <<>>
            ELSE <<".">> \o FixedDigits(Abs(c.v) % Pow10(c.decimals), c.decimals))

\* The characters of f"Rs{value:,.2f}" and of f"Rs{x:,.0f}".
currency_text(c) ==
    <<"Rs">> \o Sign(c.v) \o Grouped(Digits(Abs(c.v) \div Pow10(c.decimals)))
        \o (IF c.decimals = 0 THEN <<>>
            ELSE <<".">> \o FixedDigits(Abs(c.v) % Pow10(c.decimals), c.decimals))

\* The characters of f"{value:.2f}%".
percent_text(p) ==
    IF p.k = "num"
    THEN Sign(p.bp) \o Digits(Abs(p.bp) \div 100) \o <<".">>
            \o FixedDigits(Abs(p.bp) % 100, 2) \o <<"%">>
    ELSE <<p.k, "%">>

\* f"{x:.2f}%" of a float.
fmt_2f_pct(f) ==
    IF f.k = "num" THEN Percent("num", RoundHalfEven(f.n * 100, f.d))
    ELSE Percent(f.k, 0)

\* f"Rs{x:,.0f}" of an amount.
fmt_0f_rupee(x) == Currency(0, RoundHalfEven(x, 100))

(***************************************************************************)
(* stock_portfolio_dashboard.py                                            *)
(***************************************************************************)
format_currency(value) == Currency(2, value)

format_percentage(value) ==
    IF isna(value) THEN Percent("num", 0) ELSE fmt_2f_pct(value)

\* A variant of calculate_hpr that divides by the current value.
calculate_hpr_over_market(current_value, cost_value) ==
    IF cost_value = 0 \/ current_value = 0 THEN Num(0, 1)
    ELSE times100(Num(current_value - cost_value, current_value))

calculate_hpr(current_value, cost_value) ==
    IF cost_value = 0 THEN Num(0, 1)
    ELSE times100(Num(current_value - cost_value, cost_value))

summary_options == {"Member", "Sector", "Broker"}

sort_options == {"Member", "Sector", "Broker", "CompanyName"}

Returned(value) == [raised |-> "", value |-> value]

Raised(exception) == [raised |-> exception, value |-> <<>>]

\* The first value create_summary_table returns, or the exception it raises:
\* no branch of the if/elif chain binds `summary` for any other group_by.
create_summary_table(df, group_by) ==
    IF group_by \notin {"Member", "Sector", "Broker"} THEN Raised("UnboundLocalError")
    ELSE LET grouped == groupby_sum(df, <<"Portfolio", group_by>>)
         IN  Returned([j \in 1..Len(grouped) |->
                [Portfolio |-> grouped[j].group[1],
                 key |-> grouped[j].group[2],
                 ValueAtCost |-> grouped[j].ValueAtCost,
                 ValueAtMarketPrice |-> grouped[j].ValueAtMarketPrice,
                 HPR |-> calculate_hpr(grouped[j].ValueAtMarketPrice,
                                       grouped[j].ValueAtCost)]])

\* The second value create_summary_table returns: the Portfolio column is
\* dropped (the renaming of the other columns changes no value).
summary_display_of(summary_data) ==
    [j \in 1..Len(summary_data) |->
        [key |-> summary_data[j].key,
         ValueAtCost |-> summary_data[j].ValueAtCost,
         ValueAtMarketPrice |-> summary_data[j].ValueAtMarketPrice,
         HPR |-> summary_data[j].HPR]]

\* A variant of create_detail_table that orders the rows by invested amount.
create_detail_table_resorted(df) ==
    LET resorted == sort_values(df, <<"ValueAtCost">>)
    IN  [i \in 1..Len(resorted) |->
            [row |-> resorted[i],
             HPR |-> calculate_hpr(resorted[i].ValueAtMarketPrice, resorted[i].ValueAtCost)]]

create_detail_table(df) ==
    [i \in 1..Len(df) |->
        [row |-> df[i],
         HPR |-> calculate_hpr(df[i].ValueAtMarketPrice, df[i].ValueAtCost)]]

\* The caller's frame after create_summary_table(df, ...): groupby, agg and
\* reset_index build a new frame and assign nothing to df.
df_after_create_summary_table(df, group_by) == df

\* A variant of df_after_create_detail_table for `detail = df`: the HPR column
\* is then added to the caller's frame.
df_after_create_detail_table_no_copy(df) ==
    [i \in 1..Len(df) |->
        [c \in DOMAIN df[i] \cup {"HPR"} |->
            IF c = "HPR" THEN calculate_hpr(df[i].ValueAtMarketPrice, df[i].ValueAtCost)
            ELSE df[i][c]]]

\* The caller's frame after create_detail_table(df, ...): the HPR column is
\* assigned to detail = df.copy(), and the renamed columns to a copy of that.
df_after_create_detail_table(df) == df

\* summary_formatted / detail_formatted: the three value columns as strings.
summary_formatted_of(summary_display) ==
    [j \in 1..Len(summary_display) |->
        [key |-> summary_display[j].key,
         ValueAtCost |-> format_currency(summary_display[j].ValueAtCost),
         ValueAtMarketPrice |-> format_currency(summary_display[j].ValueAtMarketPrice),
         HPR |-> format_percentage(summary_display[j].HPR)]]

detail_formatted_of(detail_display) ==
    [i \in 1..Len(detail_display) |->
        [row |-> detail_display[i].row,
         ValueAtCost |-> format_currency(detail_display[i].row.ValueAtCost),
         ValueAtMarketPrice |-> format_currency(detail_display[i].row.ValueAtMarketPrice),
         HPR |-> format_percentage(detail_display[i].HPR)]]

\* Portfolio Statistics.
portfolio_statistics(df) ==
    LET total_investment == SumCol(df, "ValueAtCost")
        total_current_value == SumCol(df, "ValueAtMarketPrice")
        total_gain_loss == total_current_value - total_investment
        total_hpr == calculate_hpr(total_current_value, total_investment)
    IN  [total_investment |-> total_investment,
         total_current_value |-> total_current_value,
         total_gain_loss |-> total_gain_loss,
         total_hpr |-> total_hpr,
         shown |-> [investment |-> format_currency(total_investment),
                    current_value |-> format_currency(total_current_value),
                    gain_loss |-> format_currency(total_gain_loss),
                    hpr |-> format_percentage(total_hpr)]]

All == 0

\* A variant of apply_selectbox_filter that selects from the loaded frame,
\* filtered_df = df[df[col] == selected], and so forgets the filters before it.
apply_selectbox_filter_on_loaded(df, col, selected) ==
    IF selected # All THEN SelectSeq(csv, LAMBDA row : row[col] = selected)
    ELSE df

\* filtered_df = filtered_df[filtered_df[col] == selected], unless 'All'.
apply_selectbox_filter(df, col, selected) ==
    IF selected # All THEN SelectSeq(df, LAMBDA row : row[col] = selected)
    ELSE df

apply_filters(df, w) ==
    LET f1 == apply_selectbox_filter(df, "Portfolio", w.selected_portfolio)
        f2 == apply_selectbox_filter(f1, "Member", w.selected_member)
        f3 == apply_selectbox_filter(f2, "Broker", w.selected_broker)
    IN  apply_selectbox_filter(f3, "Sector", w.selected_sector)

required_columns ==
    {"Portfolio", "Broker", "Member", "CompanyName", "Sector", "Qty",
     "ValueAtCost", "ValueAtMarketPrice"}

\* A file system where portfolio-inputs.csv is readable and complete, and
\* nothing has been put in the uploader.
GoodFiles == [default |-> "ok", uploaded |-> "none", columns |-> required_columns]

\* The loading part of main(): the default file is tried when the checkbox
\* is ticked; the uploader is shown when it is not, or when the default file
\* could not be read; df stays None unless one of the two reads succeeds.
load_file(use_default, f) ==
    LET default_read == use_default /\ f.default = "ok"
        uploader == ~use_default \/ ~default_read
    IN  [df_loaded |-> default_read \/ (uploader /\ f.uploaded = "ok"),
         uploader_offered |-> uploader,
         sidebar |->
            (IF ~use_default THEN {}
             ELSE IF f.default = "ok" THEN {"Default file loaded successfully!"}
             ELSE IF f.default = "FileNotFoundError" THEN {"Default file not found"}
             ELSE {"Error loading default file"})
            \cup
            (IF ~uploader \/ f.uploaded = "none" THEN {}
             ELSE IF f.uploaded = "ok" THEN {"File uploaded successfully!"}
             ELSE {"Error reading file"})]

\* A variant of missing_columns that does not require the Qty column.
missing_columns_but_qty(columns) == (required_columns \ {"Qty"}) \ columns

\* [col for col in required_columns if col not in df.columns]
missing_columns(columns) == required_columns \ columns

\* What a run reports besides its tables: whether the uploader was shown,
\* the sidebar messages, the error or information message of the page, and
\* the columns the message names.
Report(loaded, message, named) ==
    [uploader_offered |-> loaded.uploader_offered, sidebar |-> loaded.sidebar,
     message |-> message, missing_columns |-> named]

NoReport ==
    [uploader_offered |-> FALSE, sidebar |-> {}, message |-> "", missing_columns |-> {}]

ActiveSelectboxes(w) ==
    Cardinality({c \in {"selected_portfolio", "selected_member",
                         "selected_broker", "selected_sector"} : w[c] # All})

NoTable == <<>>

NoStats == [shown |-> "none"]

\* The options each selectbox offers.
SelectboxOptions(df) ==
    [use_default |-> BOOLEAN,
     summary_group_by |-> summary_options, selected_sort |-> sort_options,
     selected_portfolio |-> {All} \cup Unique(df, "Portfolio"),
     selected_member |-> {All} \cup Unique(df, "Member"),
     selected_broker |-> {All} \cup Unique(df, "Broker"),
     selected_sector |-> {All} \cup Unique(df, "Sector")]

\* The checkbox starts ticked and every selectbox at its first option.
DefaultSelectboxes ==
    [use_default |-> TRUE,
     summary_group_by |-> "Member", selected_sort |-> "Member",
     selected_portfolio |-> All, selected_member |-> All,
     selected_broker |-> All, selected_sector |-> All]

\* The script is run again whenever one widget changes its value: the
\* widget values of the next run.
OneInteraction(old, options) ==
    {[old EXCEPT ![c] = v] : <<c, v>> \in UNION {{c} \X options[c] : c \in DOMAIN old}}

\* The widgets the user can act on: after a run that ended before the
\* selectboxes were created, only the checkbox is on the page.
WidgetsOnPage(df) ==
    IF outcome \in {"no_file", "missing_columns"}
    THEN [c \in DOMAIN widgets |->
            IF c = "use_default" THEN BOOLEAN ELSE {widgets[c]}]
    ELSE SelectboxOptions(df)

\* A run of main() that ends before any table is computed.  Streamlit
\* forgets the value of a widget that a run does not create.
EndsWithoutTables(w, how, loaded, message, named) ==
    /\ outcome' = how
    /\ widgets' = [DefaultSelectboxes EXCEPT !.use_default = w.use_default]
    /\ filtered_df' = NoTable
    /\ summary' = NoTable /\ summary_shown' = NoTable
    /\ detail' = NoTable /\ detail_shown' = NoTable
    /\ stats' = NoStats
    /\ report' = Report(loaded, message, named)

\* One run of main().
RunStockPortfolioDashboard ==
    /\ script = SPD
    /\ \E w \in OneInteraction(widgets, WidgetsOnPage(csv)) :
         LET loaded == load_file(w.use_default, files)
             missing == missing_columns(files.columns)
             df == to_numeric_fillna(csv, non_numeric)
             filtered == apply_filters(df, w)
             sorted == sort_values(filtered, <<w.selected_sort, "CompanyName">>)
             summary_data == create_summary_table(sorted, w.summary_group_by)
             detail_data == create_detail_table(sorted)
         IN  /\ ActiveSelectboxes(w) <= MaxActiveFilters
             /\ IF ~loaded.df_loaded
                THEN EndsWithoutTables(w, "no_file", loaded, "Please upload a CSV file", {})
                ELSE IF missing # {}
                THEN EndsWithoutTables(w, "missing_columns", loaded, "Missing columns", missing)
                ELSE IF filtered = <<>>
                THEN /\ outcome' = "no_data"
                     /\ widgets' = w
                     /\ filtered_df' = filtered
                     /\ summary' = NoTable /\ summary_shown' = NoTable
                     /\ detail' = NoTable /\ detail_shown' = NoTable
                     /\ stats' = NoStats
                     /\ report' = Report(loaded, "No data available", {})
                ELSE IF summary_data.raised # ""
                THEN /\ outcome' = "error"
                     /\ widgets' = w
                     /\ filtered_df' = sorted
                     /\ summary' = NoTable /\ summary_shown' = NoTable
                     /\ detail' = NoTable /\ detail_shown' = NoTable
                     /\ stats' = NoStats
                     /\ report' = Report(loaded, summary_data.raised, {})
                ELSE /\ outcome' = "rendered"
                     /\ widgets' = w
                     /\ filtered_df' = df_after_create_detail_table(
                                          df_after_create_summary_table(sorted, w.summary_group_by))
                     /\ summary' = summary_data.value
                     /\ summary_shown' = summary_formatted_of(summary_display_of(summary_data.value))
                     /\ detail' = detail_data
                     /\ detail_shown' = detail_formatted_of(detail_data)
                     /\ stats' = portfolio_statistics(sorted)
                     /\ report' = Report(loaded, "", {})
    /\ UNCHANGED <<script, csv, files, non_numeric, format_call>>

(***************************************************************************)
(* orchidDashboardStock-v2.py and orchidDashboardStock.py                  *)
(***************************************************************************)
TotalLabel == 0

\* data = data[data[col].isin(selection)], unless nothing is selected.
apply_multiselect_filter(df, col, selection) ==
    IF selection # {} THEN SelectSeq(df, LAMBDA row : row[col] \in selection)
    ELSE df

apply_filters_applied(df, filters_applied) ==
    LET f1 == apply_multiselect_filter(df, "Member", filters_applied.family)
        f2 == apply_multiselect_filter(f1, "Broker", filters_applied.broker)
        f3 == apply_multiselect_filter(f2, "Sector", filters_applied.sector)
    IN  apply_multiselect_filter(f3, "CompanyName", filters_applied.stock)

ActiveMultiselects(w) ==
    Cardinality({c \in {"family", "broker", "sector", "stock"} : w[c] # {}})

\* ((current - invested) / invested) * 100 on pandas columns or numpy scalars.
return_raw(current, invested) == times100(np_divide(current - invested, invested))

\* A variant of orchid_summary whose return is the mean of the returns of the
\* group's holdings.
RECURSIVE SumOfReturns(_)
SumOfReturns(rows) ==
    IF rows = <<>> THEN Num(0, 1)
    ELSE LET r == return_raw(rows[1].ValueAtMarketPrice, rows[1].ValueAtCost)
             rest == SumOfReturns(Tail(rows))
         IN  IF r.k = "num" /\ rest.k = "num"
             THEN Num(r.n * rest.d + rest.n * r.d, r.d * rest.d)
             ELSE IF r.k = "num" THEN rest ELSE r

orchid_summary_mean_return(sorted_data, sort_field) ==
    LET grouped == groupby_sum(sorted_data, <<sort_field>>)
        members(g) == SelectSeq(sorted_data, LAMBDA row : row[sort_field] = g)
        mean(rows) == LET total == SumOfReturns(rows)
                      IN  IF total.k = "num" THEN Num(total.n, total.d * Len(rows)) ELSE total
    IN  [j \in 1..Len(grouped) |->
            [key |-> grouped[j].group[1],
             ValueAtCost |-> grouped[j].ValueAtCost,
             ValueAtMarketPrice |-> grouped[j].ValueAtMarketPrice,
             HPR |-> mean(members(grouped[j].group[1]))]]

\* A variant of orchid_summary that groups by the sort field the previous
\* run left in the session state.
orchid_summary_by_previous_key(sorted_data, sort_field) ==
    LET grouped == groupby_sum(sorted_data, <<widgets.sort_field>>)
    IN  [j \in 1..Len(grouped) |->
            [key |-> grouped[j].group[1],
             ValueAtCost |-> grouped[j].ValueAtCost,
             ValueAtMarketPrice |-> grouped[j].ValueAtMarketPrice,
             HPR |-> return_raw(grouped[j].ValueAtMarketPrice, grouped[j].ValueAtCost)]]

\* summary = sorted_data.groupby(sort_field).agg(sum), with its return column.
orchid_summary(sorted_data, sort_field) ==
    LET grouped == groupby_sum(sorted_data, <<sort_field>>)
    IN  [j \in 1..Len(grouped) |->
            [key |-> grouped[j].group[1],
             ValueAtCost |-> grouped[j].ValueAtCost,
             ValueAtMarketPrice |-> grouped[j].ValueAtMarketPrice,
             HPR |-> return_raw(grouped[j].ValueAtMarketPrice, grouped[j].ValueAtCost)]]

v2_summary_formatted(summary_rows) ==
    [j \in 1..Len(summary_rows) |->
        [key |-> summary_rows[j].key,
         ValueAtCost |-> fmt_0f_rupee(summary_rows[j].ValueAtCost),
         ValueAtMarketPrice |-> fmt_0f_rupee(summary_rows[j].ValueAtMarketPrice),
         HPR |-> fmt_2f_pct(summary_rows[j].HPR)]]

\* A variant of v2_total_row that adds up the amounts as the rows show them.
RECURSIVE SumShown(_, _)
SumShown(df, col) ==
    IF df = <<>> THEN 0 ELSE fmt_0f_rupee(df[1][col]).v + SumShown(Tail(df), col)

v2_total_row_of_shown_amounts(data) ==
    [key |-> TotalLabel,
     ValueAtCost |-> Currency(0, SumShown(data, "ValueAtCost")),
     ValueAtMarketPrice |-> Currency(0, SumShown(data, "ValueAtMarketPrice")),
     HPR |-> fmt_2f_pct(return_raw(SumCol(data, "ValueAtMarketPrice"),
                                   SumCol(data, "ValueAtCost")))]

v2_total_row(data) ==
    [key |-> TotalLabel,
     ValueAtCost |-> fmt_0f_rupee(SumCol(data, "ValueAtCost")),
     ValueAtMarketPrice |-> fmt_0f_rupee(SumCol(data, "ValueAtMarketPrice")),
     HPR |-> fmt_2f_pct(return_raw(SumCol(data, "ValueAtMarketPrice"),
                                   SumCol(data, "ValueAtCost")))]

\* A variant of v2_concat_total that puts the total row first.
v2_concat_total_first(formatted, total_row) == <<total_row>> \o formatted

\* pd.concat([summary, pd.DataFrame([total_row])], ignore_index=True)
v2_concat_total(formatted, total_row) == Append(formatted, total_row)

v2_detail(sorted_data) ==
    [i \in 1..Len(sorted_data) |->
        [row |-> sorted_data[i],
         HPR |-> return_raw(sorted_data[i].ValueAtMarketPrice, sorted_data[i].ValueAtCost)]]

v2_display_data(sorted_data) ==
    [i \in 1..Len(sorted_data) |->
        [row |-> sorted_data[i],
         ValueAtCost |-> fmt_0f_rupee(sorted_data[i].ValueAtCost),
         ValueAtMarketPrice |-> fmt_0f_rupee(sorted_data[i].ValueAtMarketPrice),
         HPR |-> fmt_2f_pct(v2_detail(sorted_data)[i].HPR)]]

\* sorted_data after the summary and the detail of an orchidDashboardStock
\* script: the summary is a new frame made by groupby, and the formatted
\* columns are assigned to display_data = sorted_data.copy().
sorted_data_after_tables(sorted_data) == sorted_data

\* No filter is selected at first; the sort selectbox starts at its first option.
DefaultOrchidWidgets ==
    [family |-> {}, broker |-> {}, sector |-> {}, stock |-> {}, sort_field |-> "Member"]

\* The options each multiselect offers, and those of the sort selectbox.
OrchidOptions(data) ==
    [family |-> SUBSET Unique(data, "Member"),
     broker |-> SUBSET Unique(data, "Broker"),
     sector |-> SUBSET Unique(data, "Sector"),
     stock |-> SUBSET Unique(data, "CompanyName"),
     sort_field |-> sort_options]

\* A run of an orchidDashboardStock script that an uncaught exception ends.
OrchidRunRaises(w, exception) ==
    /\ outcome' = "error"
    /\ widgets' = w
    /\ filtered_df' = NoTable
    /\ summary' = NoTable /\ summary_shown' = NoTable
    /\ detail' = NoTable /\ detail_shown' = NoTable
    /\ stats' = NoStats
    /\ report' = [NoReport EXCEPT !.message = exception]

\* What the subtraction current value - invested amount of the summary does
\* when load_data() has left an amount column as strings: it raises
\* TypeError on any row; on an empty frame the outcome depends on the pandas
\* version, so both are possible.
ObjectColumnOutcomes(data) == IF data # <<>> THEN {"TypeError"} ELSE {"TypeError", ""}

\* One run of orchidDashboardStock-v2.py.  The sums of a numeric column are
\* numpy scalars, whose division by zero yields inf or nan and does not raise.
RunOrchidV2 ==
    /\ script = V2
    /\ \E w \in OneInteraction(widgets, OrchidOptions(csv)) :
         LET data == apply_filters_applied(csv, w)
             sorted_data == sort_values(data, <<w.sort_field>>)
             summary_rows == orchid_summary(sorted_data, w.sort_field)
         IN  /\ ActiveMultiselects(w) <= MaxActiveFilters
             /\ \E exception \in IF object_columns(non_numeric) # {}
                                  THEN ObjectColumnOutcomes(data) ELSE {""} :
                  IF exception # ""
                  THEN OrchidRunRaises(w, exception)
                  ELSE /\ widgets' = w
                       /\ filtered_df' = sorted_data_after_tables(sorted_data)
                       /\ outcome' = "rendered"
                       /\ summary' = summary_rows
                       /\ summary_shown' = v2_concat_total(v2_summary_formatted(summary_rows),
                                                           v2_total_row(data))
                       /\ detail' = v2_detail(sorted_data)
                       /\ detail_shown' = v2_display_data(sorted_data)
                       /\ stats' = NoStats
                       /\ report' = NoReport
    /\ UNCHANGED <<script, csv, files, non_numeric, format_call>>

\* One run of orchidDashboardStock.py: the sorted rows are shown as they
\* are, and the summary frame is shown unformatted and without a total row.
RunOrchidV1 ==
    /\ script = V1
    /\ \E w \in OneInteraction(widgets, OrchidOptions(csv)) :
         LET data == apply_filters_applied(csv, w)
             sorted_data == sort_values(data, <<w.sort_field>>)
             summary_rows == orchid_summary(sorted_data, w.sort_field)
         IN  /\ ActiveMultiselects(w) <= MaxActiveFilters
             /\ \E exception \in IF object_columns(non_numeric) # {}
                                  THEN ObjectColumnOutcomes(data) ELSE {""} :
                  IF exception # ""
                  THEN OrchidRunRaises(w, exception)
                  ELSE /\ widgets' = w
                       /\ filtered_df' = sorted_data_after_tables(sorted_data)
                       /\ outcome' = "rendered"
                       /\ summary' = summary_rows
                       /\ summary_shown' = summary_rows
                       /\ detail' = [i \in 1..Len(sorted_data) |-> [row |-> sorted_data[i]]]
                       /\ detail_shown' = [i \in 1..Len(sorted_data) |-> [row |-> sorted_data[i]]]
                       /\ stats' = NoStats
                       /\ report' = NoReport
    /\ UNCHANGED <<script, csv, files, non_numeric, format_call>>

(***************************************************************************)
(* The formatting functions on their own: a value is handed to one of the  *)
(* four formatters, and the string it returns is kept.                     *)
(***************************************************************************)
NoFormat == [fn |-> "", value |-> NaN, text |-> <<>>]

Formatters == {"format_currency", "format_percentage", "fmt_0f_rupee", "fmt_2f_pct"}

\* Amounts in rupees, as floats with two decimals: 1234.5 among them.
FormatAmounts ==
    {Num(123450, 100)} \cup
    {Num(s * k * k * k * 12345, 100) : k \in 0..MaxFormatInputs, s \in {-1, 1}}

\* Percentages with three decimals, -3.456 among them, and inf, -inf, nan.
FormatPercentages ==
    {NaN, Inf, NegInf} \cup
    {Num(s * k * k * 3456, 1000) : k \in 0..MaxFormatInputs, s \in {-1, 1}}

FormatInputs(fn) ==
    IF fn \in {"format_currency", "fmt_0f_rupee"} THEN FormatAmounts ELSE FormatPercentages

\* The string formatter fn returns for value.
format_text(fn, value) ==
    IF fn = "format_currency" THEN currency_text(format_currency(value.n))
    ELSE IF fn = "fmt_0f_rupee" THEN currency_text(fmt_0f_rupee(value.n))
    ELSE IF fn = "format_percentage" THEN percent_text(format_percentage(value))
    ELSE percent_text(fmt_2f_pct(value))

ApplyFormat ==
    /\ format_call.fn \in Formatters
    /\ format_call.text = <<>>
    /\ format_call' = [format_call EXCEPT !.text = format_text(format_call.fn, format_call.value)]
    /\ UNCHANGED <<script, csv, widgets, filtered_df, summary, summary_shown,
                   detail, detail_shown, stats, outcome, files, non_numeric, report>>

InitFormat ==
    /\ format_call \in UNION {[fn : {fn}, value : FormatInputs(fn), text : {<<>>}] : fn \in Formatters}
    /\ script = IF format_call.fn \in {"format_currency", "format_percentage"} THEN SPD ELSE V2
    /\ csv = NoTable
    /\ widgets = IF script = SPD THEN DefaultSelectboxes ELSE DefaultOrchidWidgets
    /\ filtered_df = NoTable
    /\ summary = NoTable
    /\ summary_shown = NoTable
    /\ detail = NoTable
    /\ detail_shown = NoTable
    /\ stats = NoStats
    /\ outcome = "start"
    /\ files = GoodFiles
    /\ non_numeric = {}
    /\ report = NoReport

NextFormat == ApplyFormat

SpecFormat == InitFormat /\ [][NextFormat]_vars

(***************************************************************************)
(* The state before the first run, and the runs.                           *)
(***************************************************************************)
Init ==
    /\ script \in Scripts
    /\ csv \in CsvFiles
    /\ widgets = IF script = SPD THEN DefaultSelectboxes ELSE DefaultOrchidWidgets
    /\ filtered_df = NoTable
    /\ summary = NoTable
    /\ summary_shown = NoTable
    /\ detail = NoTable
    /\ detail_shown = NoTable
    /\ stats = NoStats
    /\ outcome = "start"
    /\ files = GoodFiles
    /\ non_numeric = {}
    /\ report = NoReport
    /\ format_call = NoFormat

Next ==
    \/ RunStockPortfolioDashboard
    \/ RunOrchidV2
    \/ RunOrchidV1

Spec == Init /\ [][Next]_vars

(***************************************************************************)
(* The same runs on files that are not what the scripts expect: one amount *)
(* cell that is not a number, or, for stock_portfolio_dashboard.py, a      *)
(* default file that cannot be read, an upload, a header that lacks        *)
(* columns.                                                                *)
(***************************************************************************)
IngestHoldings == {Holding(1, 1, 1, 1, 1, 150, 250)}

FileSystems ==
    [default : {"ok", "FileNotFoundError", "ParserError"},
     uploaded : {"none", "ok", "ParserError"},
     columns : {required_columns, required_columns \ {"Qty"},
                required_columns \ {"Sector", "ValueAtCost"}}]

InitIngest ==
    /\ script \in Scripts
    /\ csv \in SeqsUpTo(IngestHoldings, MaxRows) \ {<<>>}
    /\ \/ /\ files = GoodFiles
          /\ non_numeric \in {{cell} : cell \in AmountCells(csv)}
       \/ /\ script = SPD
          /\ files \in FileSystems \ {GoodFiles}
          /\ non_numeric = {}
    /\ widgets = IF script = SPD THEN DefaultSelectboxes ELSE DefaultOrchidWidgets
    /\ filtered_df = NoTable
    /\ summary = NoTable
    /\ summary_shown = NoTable
    /\ detail = NoTable
    /\ detail_shown = NoTable
    /\ stats = NoStats
    /\ outcome = "start"
    /\ report = NoReport
    /\ format_call = NoFormat

SpecIngest == InitIngest /\ [][Next]_vars

(***************************************************************************)
(* Vocabulary of the properties.                                           *)
(***************************************************************************)
Rendered == outcome = "rendered"

\* The column the summary of the current run is grouped by.
GroupingKey == IF script = SPD THEN widgets.summary_group_by ELSE widgets.sort_field

GroupingKeyEnum == {"Member", "Broker", "Sector", "CompanyName"}

RECURSIVE TotalOver(_, _, _)
TotalOver(df, col, rows) ==
    IF rows = {} THEN 0
    ELSE LET i == CHOOSE i \in rows : TRUE
         IN  df[i][col] + TotalOver(df, col, rows \ {i})

AllRows == 1..Len(filtered_df)

\* The holdings of the filtered set that carry group value g.
RowsOfGroup(g) == {i \in AllRows : filtered_df[i][GroupingKey] = g}

\* The holdings summary row r was aggregated from: in
\* stock_portfolio_dashboard.py those of its portfolio and group value.
RowsOfSummaryRow(r) ==
    IF script = SPD
    THEN {i \in RowsOfGroup(r.key) : filtered_df[i].Portfolio = r.Portfolio}
    ELSE RowsOfGroup(r.key)

IsZero(f) == f.k = "num" /\ f.n = 0

ShowsZero(text) == text.k = "num" /\ text.bp = 0

\* Float f is exactly (current - invested) / invested * 100.
IsReturnOf(f, current, invested) ==
    f.k = "num" /\ f.n * invested = (current - invested) * 100 * f.d

\* The text shows (current - invested) / invested * 100 to two decimals:
\* it is within half a hundredth of a percent of it.
ShowsReturnOf(text, current, invested) ==
    /\ text.k = "num"
    /\ 2 * (text.bp * invested - (current - invested) * 10000) <= invested
    /\ 2 * ((current - invested) * 10000 - text.bp * invested) <= invested

HasTotalRow == script = V2 /\ Rendered

TotalRow == summary_shown[Len(summary_shown)]

(***************************************************************************)
(* C1.  Whenever an invested amount is 0 (a holding's, a group's sum or    *)
(* the grand total), no run raises and the return is the sentinel 0, in    *)
(* the detail rows, the summary rows and the total row or total statistic  *)
(* of every script.                                                        *)
(***************************************************************************)
C1_ZeroInvestedGivesSentinel ==
    /\ outcome # "error"
    /\ Rendered =>
        /\ \A j \in 1..Len(summary) :
              summary[j].ValueAtCost = 0 =>
                /\ IsZero(summary[j].HPR)
                /\ script # V1 => ShowsZero(summary_shown[j].HPR)
        /\ script # V1 =>
              \A i \in 1..Len(detail) :
                detail[i].row.ValueAtCost = 0 =>
                  IsZero(detail[i].HPR) /\ ShowsZero(detail_shown[i].HPR)
        /\ TotalOver(filtered_df, "ValueAtCost", AllRows) = 0 =>
              /\ script = V2 => ShowsZero(TotalRow.HPR)
              /\ script = SPD => IsZero(stats.total_hpr) /\ ShowsZero(stats.shown.hpr)

(***************************************************************************)
(* C2.  Each summary row's invested amount is the sum of the invested      *)
(* amounts of all filtered holdings whose grouping-key value is the row's  *)
(* group, and its current value the sum of their current values.           *)
(***************************************************************************)
C2_SummaryRowSumsItsGroup ==
    Rendered =>
        \A j \in 1..Len(summary) :
            /\ summary[j].ValueAtCost =
                  TotalOver(filtered_df, "ValueAtCost", RowsOfGroup(summary[j].key))
            /\ summary[j].ValueAtMarketPrice =
                  TotalOver(filtered_df, "ValueAtMarketPrice", RowsOfGroup(summary[j].key))

(***************************************************************************)
(* C3.  The summary has exactly one row per distinct value of the          *)
(* grouping key present in the holdings: no group value appears in two     *)
(* summary rows.                                                           *)
(***************************************************************************)
C3_OneSummaryRowPerGroup ==
    Rendered =>
        /\ {summary[j].key : j \in 1..Len(summary)} = Unique(filtered_df, GroupingKey)
        /\ \A i, j \in 1..Len(summary) : summary[i].key = summary[j].key => i = j

HasTotals == Rendered /\ script \in {V2, SPD}

Totals ==
    IF script = V2 THEN <<TotalRow.ValueAtCost, TotalRow.ValueAtMarketPrice>>
    ELSE <<stats.shown.investment, stats.shown.current_value>>

SameFilters ==
    IF script = SPD
    THEN UNCHANGED <<widgets.selected_portfolio, widgets.selected_member,
                     widgets.selected_broker, widgets.selected_sector>>
    ELSE UNCHANGED <<widgets.family, widgets.broker, widgets.sector, widgets.stock>>

TotalsAreSumsOfFilteredSet ==
    LET invested == TotalOver(filtered_df, "ValueAtCost", AllRows)
        current == TotalOver(filtered_df, "ValueAtMarketPrice", AllRows)
    IN  /\ script = V2 =>
              Totals = <<Currency(0, RoundHalfEven(invested, 100)),
                         Currency(0, RoundHalfEven(current, 100))>>
        /\ script = SPD =>
              /\ Totals = <<Currency(2, invested), Currency(2, current)>>
              /\ stats.total_investment = invested
              /\ stats.total_current_value = current

C5_TotalsAreSumsWhateverTheKey ==
    /\ [](HasTotals => TotalsAreSumsOfFilteredSet)
    /\ [][(HasTotals /\ HasTotals' /\ SameFilters) => Totals' = Totals]_vars

C5_Witness ==
    /\ HasTotals
    /\ Len(summary) >= 2
    /\ GroupingKey = "Sector"
    /\ TotalOver(filtered_df, "ValueAtCost", AllRows) = 400

(***************************************************************************)
(* C6.  For every holding with a positive invested amount, the return of   *)
(* its detail row is (current value - invested amount) / invested amount   *)
(* x 100 of that holding's own values, and is shown to two decimals.       *)
(***************************************************************************)
C6_DetailReturnOfOwnValues ==
    (Rendered /\ script # V1) =>
        /\ Len(detail) = Len(filtered_df)
        /\ \A i \in 1..Len(detail) :
              LET h == filtered_df[i]
              IN  h.ValueAtCost > 0 =>
                    /\ IsReturnOf(detail[i].HPR, h.ValueAtMarketPrice, h.ValueAtCost)
                    /\ ShowsReturnOf(detail_shown[i].HPR, h.ValueAtMarketPrice, h.ValueAtCost)

C6_Witness ==
    /\ Rendered /\ script # V1
    /\ \E i \in 1..Len(detail) :
          /\ detail[i].row.ValueAtCost = 150
          /\ detail_shown[i].HPR = Percent("num", 6667)

(***************************************************************************)
(* C7.  The return of every summary row, and of the totals, is computed    *)
(* from the summed amounts of the holdings it aggregates, (sum of current  *)
(* values - sum of invested amounts) / sum of invested amounts x 100, by   *)
(* the same formula for the totals as for the group rows (stated for       *)
(* positive sums of invested amounts).                                     *)
(***************************************************************************)
C7_SummaryReturnFromSums ==
    Rendered =>
        /\ \A j \in 1..Len(summary) :
              LET rows == RowsOfSummaryRow(summary[j])
                  invested == TotalOver(filtered_df, "ValueAtCost", rows)
                  current == TotalOver(filtered_df, "ValueAtMarketPrice", rows)
              IN  invested > 0 =>
                    /\ IsReturnOf(summary[j].HPR, current, invested)
                    /\ script # V1 => ShowsReturnOf(summary_shown[j].HPR, current, invested)
        /\ LET invested == TotalOver(filtered_df, "ValueAtCost", AllRows)
               current == TotalOver(filtered_df, "ValueAtMarketPrice", AllRows)
           IN  invested > 0 =>
                 /\ script = V2 => ShowsReturnOf(TotalRow.HPR, current, invested)
                 /\ script = SPD =>
                       /\ IsReturnOf(stats.total_hpr, current, invested)
                       /\ ShowsReturnOf(stats.shown.hpr, current, invested)

C7_Witness ==
    /\ Rendered
    /\ \E j \in 1..Len(summary) :
          /\ Cardinality(RowsOfSummaryRow(summary[j])) = 2
          /\ summary[j].ValueAtCost = 400
          /\ summary[j].ValueAtMarketPrice = 300
          /\ script # V1 /\ summary_shown[j].HPR = Percent("num", -2500)

(***************************************************************************)
(* C8.  The detail table has exactly one row per holding it was given, in  *)
(* the order given by the caller's sort: no row is re-sorted, dropped or   *)
(* duplicated.                                                             *)
(***************************************************************************)
C8_DetailKeepsRowsAndOrder ==
    Rendered =>
        /\ Len(detail) = Len(filtered_df)
        /\ Len(detail_shown) = Len(filtered_df)
        /\ \A i \in 1..Len(filtered_df) :
              detail[i].row = filtered_df[i] /\ detail_shown[i].row = filtered_df[i]

C8_Witness ==
    /\ Rendered
    /\ Len(detail) >= 2
    /\ filtered_df # csv
    /\ detail[1].row.ValueAtCost > detail[2].row.ValueAtCost

(***************************************************************************)
(* C9.  Each of the four grouping keys member, broker, sector and stock    *)
(* gives a summary and raises nothing: no key leaves the summary           *)
(* undefined.                                                              *)
(***************************************************************************)
C9_EveryGroupingKeyGivesASummary ==
    /\ outcome # "error"
    /\ (Rendered /\ script = SPD) =>
          \A k \in GroupingKeyEnum : create_summary_table(filtered_df, k).raised = ""

(***************************************************************************)
(* C10.  When the filters leave no holdings, the summary and the detail    *)
(* are empty: no group row, no error, no undefined return value.           *)
(***************************************************************************)
C10_NoHoldingsGiveEmptyTables ==
    (outcome # "start" /\ filtered_df = <<>>) =>
        /\ outcome # "error"
        /\ summary = <<>>
        /\ detail = <<>>
        /\ \A j \in 1..Len(summary_shown) : summary_shown[j].HPR.k = "num"

\* The rows of the file with 0 in place of every amount that is not a number.
RowsWithZeroForNonNumeric ==
    {[c \in DOMAIN csv[i] |-> IF <<i, c>> \in non_numeric THEN 0 ELSE csv[i][c]] :
        i \in 1..Len(csv)}

(***************************************************************************)
(* C11.  When an amount of the file is not a number, no run raises, and    *)
(* the holdings the summary, the detail and the totals are computed from   *)
(* carry 0 in its place, in every script.                                  *)
(***************************************************************************)
C11_NonNumericAmountsCountAsZero ==
    (non_numeric # {} /\ outcome # "start") =>
        /\ outcome # "error"
        /\ \A i \in 1..Len(filtered_df) : filtered_df[i] \in RowsWithZeroForNonNumeric

\* Everything a run computes from the holdings it was given.
Tables == <<summary, summary_shown, detail, detail_shown, stats>>

FrameGiven ==
    IF script = SPD
    THEN sort_values(apply_filters(to_numeric_fillna(csv, non_numeric), widgets),
                     <<widgets.selected_sort, "CompanyName">>)
    ELSE sort_values(apply_filters_applied(csv, widgets), <<widgets.sort_field>>)

IsDigit(c) == c \in {"0", "1", "2", "3", "4", "5", "6", "7", "8", "9"}

DigitValue(c) == CHOOSE d \in 0..9 : Digit(d) = c

\* The natural number the digits of text t spell, its commas skipped.
RECURSIVE NumberRead(_)
NumberRead(t) ==
    IF t = <<>> THEN 0
    ELSE IF IsDigit(t[Len(t)])
         THEN 10 * NumberRead(SubSeq(t, 1, Len(t) - 1)) + DigitValue(t[Len(t)])
         ELSE NumberRead(SubSeq(t, 1, Len(t) - 1))

\* Text t is a whole number with a comma before every group of three
\* digits counted from the right, and nowhere else.
CommaGrouped(t) ==
    /\ t # <<>>
    /\ \A i \in 1..Len(t) :
          IF (Len(t) - i + 1) % 4 = 0 THEN t[i] = "," ELSE IsDigit(t[i])
    /\ t[1] = "0" => Len(t) = 1

\* Text t without its first n characters.
Drop(t, n) == SubSeq(t, n + 1, Len(t))

Unsigned(t) == IF t # <<>> /\ t[1] = "-" THEN Drop(t, 1) ELSE t

\* The part of number text t before its point.
WholePart(t, decimals) ==
    IF decimals = 0 THEN t ELSE SubSeq(t, 1, Len(t) - decimals - 1)

\* Text t has exactly `decimals` digits after its only point, and no point
\* when decimals = 0.
HasDecimals(t, decimals) ==
    /\ \A i \in 1..Len(t) :
          (t[i] = ".") <=> (decimals > 0 /\ i = Len(t) - decimals)
    /\ \A i \in (Len(t) - decimals + 1)..Len(t) : i >= 1 /\ IsDigit(t[i])
    /\ Len(t) > decimals

\* Text t is the rupee sign, an optional minus sign, a comma-grouped whole
\* part and exactly `decimals` decimals.
IsCurrencyText(t, decimals) ==
    /\ Len(t) >= 2 /\ t[1] = "Rs"
    /\ HasDecimals(Unsigned(Drop(t, 1)), decimals)
    /\ CommaGrouped(WholePart(Unsigned(Drop(t, 1)), decimals))

\* Text t is an optional minus sign, digits, a point, two digits and '%'.
IsPercentText(t) ==
    /\ Len(t) >= 5 /\ t[Len(t)] = "%"
    /\ LET number == Unsigned(SubSeq(t, 1, Len(t) - 1))
       IN  /\ HasDecimals(number, 2)
           /\ \A i \in 1..Len(WholePart(number, 2)) : IsDigit(number[i])

\* The number text t shows, in units of its last decimal, with its sign.
SignedNumberRead(t) ==
    IF \E i \in 1..Len(t) : t[i] = "-" THEN -NumberRead(t) ELSE NumberRead(t)

AllSummaryRows == 1..Len(summary)

(***************************************************************************)
(* C15.  Every holding of the filtered set is counted in exactly one       *)
(* summary row, so that the invested amounts of the summary rows add up    *)
(* to the total invested amount of the filtered set, and their current     *)
(* values to its total current value; the totals the script shows are      *)
(* these sums.                                                             *)
(***************************************************************************)
C15_SummaryRowsAddUpToTheTotals ==
    Rendered =>
        LET invested == TotalOver(summary, "ValueAtCost", AllSummaryRows)
            current == TotalOver(summary, "ValueAtMarketPrice", AllSummaryRows)
        IN  /\ \A i \in AllRows :
                  Cardinality({j \in AllSummaryRows : i \in RowsOfSummaryRow(summary[j])}) = 1
            /\ invested = TotalOver(filtered_df, "ValueAtCost", AllRows)
            /\ current = TotalOver(filtered_df, "ValueAtMarketPrice", AllRows)
            /\ script = SPD =>
                  /\ stats.total_investment = invested
                  /\ stats.total_current_value = current
            /\ script = V2 =>
                  /\ Abs(100 * TotalRow.ValueAtCost.v - invested) <= 50
                  /\ Abs(100 * TotalRow.ValueAtMarketPrice.v - current) <= 50

C15_Witness ==
    /\ Rendered
    /\ Len(filtered_df) = 2
    /\ Len(summary) = 2
    /\ summary[1].ValueAtCost = 150
    /\ summary[2].ValueAtCost = 250
    /\ script = SPD /\ stats.total_investment = 400

\* The run has filtered the loaded frame.
Filtered == outcome \in {"rendered", "no_data"} \/ (script = SPD /\ outcome = "error")

\* The filters of the run, as pairs of a column and the widget that
\* restricts it.
FilterWidgets ==
    IF script = SPD
    THEN {<<"Portfolio", "selected_portfolio">>, <<"Member", "selected_member">>,
          <<"Broker", "selected_broker">>, <<"Sector", "selected_sector">>}
    ELSE {<<"Member", "family">>, <<"Broker", "broker">>,
          <<"Sector", "sector">>, <<"CompanyName", "stock">>}

\* The filter on a column is active and the row does not satisfy it.
Rejects(f, row) ==
    IF script = SPD
    THEN widgets[f[2]] # All /\ row[f[1]] # widgets[f[2]]
    ELSE widgets[f[2]] # {} /\ row[f[1]] \notin widgets[f[2]]

PassesEveryFilter(row) == \A f \in FilterWidgets : ~Rejects(f, row)

\* How many rows of frame df are equal to row.
Occurrences(df, row) == Cardinality({i \in 1..Len(df) : df[i] = row})

\* The filters applied in the opposite order.
FiltersInReverseOrder ==
    IF script = SPD
    THEN apply_selectbox_filter(
           apply_selectbox_filter(
             apply_selectbox_filter(
               apply_selectbox_filter(csv, "Sector", widgets.selected_sector),
               "Broker", widgets.selected_broker),
             "Member", widgets.selected_member),
           "Portfolio", widgets.selected_portfolio)
    ELSE apply_multiselect_filter(
           apply_multiselect_filter(
             apply_multiselect_filter(
               apply_multiselect_filter(csv, "CompanyName", widgets.stock),
               "Sector", widgets.sector),
             "Broker", widgets.broker),
           "Member", widgets.family)

(***************************************************************************)
(* C16.  The filtered holdings are exactly the loaded holdings that        *)
(* satisfy every active filter at once, each as often as the file has it:  *)
(* a filter left at 'All' (or with nothing selected) restricts nothing,    *)
(* several active filters combine as a conjunction, and applying the       *)
(* filters in the opposite order selects the same holdings.                *)
(***************************************************************************)
C16_FilteredSetIsTheConjunction ==
    Filtered =>
        /\ \A i \in 1..Len(csv) :
              Occurrences(filtered_df, csv[i]) =
                 IF PassesEveryFilter(csv[i]) THEN Occurrences(csv, csv[i]) ELSE 0
        /\ \A i \in AllRows : \E k \in 1..Len(csv) : csv[k] = filtered_df[i]
        /\ \A i \in 1..Len(csv) :
              Occurrences(FiltersInReverseOrder, csv[i]) = Occurrences(filtered_df, csv[i])
        /\ Len(FiltersInReverseOrder) = Len(filtered_df)

C16_Witness ==
    /\ Rendered
    /\ script = SPD
    /\ widgets.selected_portfolio # All
    /\ widgets.selected_member # All
    /\ Len(csv) = 2
    /\ Len(filtered_df) = 1
    /\ \E i \in 1..Len(csv) :
          /\ csv[i].Member = widgets.selected_member
          /\ csv[i].Portfolio # widgets.selected_portfolio

\* One of the two reads of main() has given a frame.
FileLoaded ==
    \/ widgets.use_default /\ files.default = "ok"
    \/ report.uploader_offered /\ files.uploaded = "ok"

NothingComputed ==
    /\ filtered_df = NoTable
    /\ summary = NoTable /\ summary_shown = NoTable
    /\ detail = NoTable /\ detail_shown = NoTable
    /\ stats = NoStats

(***************************************************************************)
(* C17.  In stock_portfolio_dashboard.py a run computes the summary, the   *)
(* detail and the statistics only when a file was read and has all eight   *)
(* required columns.  When the default file cannot be read the uploader is *)
(* offered; when no file was read the run asks for one and computes        *)
(* nothing; when a required column is missing the run reports exactly the  *)
(* missing columns and computes nothing.                                   *)
(***************************************************************************)
C17_TablesOnlyFromACompleteLoadedFile ==
    (script = SPD /\ outcome # "start") =>
        /\ ~NothingComputed => FileLoaded /\ required_columns \subseteq files.columns
        /\ (widgets.use_default /\ files.default # "ok") => report.uploader_offered
        /\ ~widgets.use_default => report.uploader_offered
        /\ ~FileLoaded => outcome = "no_file" /\ NothingComputed
        /\ (FileLoaded /\ ~(required_columns \subseteq files.columns)) =>
              /\ outcome = "missing_columns"
              /\ report.message = "Missing columns"
              /\ report.missing_columns = required_columns \ files.columns
              /\ NothingComputed
        /\ outcome = "missing_columns" => report.missing_columns # {}

C17_Witness ==
    /\ script = SPD
    /\ outcome = "missing_columns"
    /\ files.default = "FileNotFoundError"
    /\ files.uploaded = "ok"
    /\ report.uploader_offered
    /\ report.missing_columns = {"Sector", "ValueAtCost"}

====
